---- MODULE Spec2Model ----
(***************************************************************************)
(* Session manager of the WhatsApp web gateway: the WhatsAppClientManager  *)
(* singleton (client.ts), the auth routes (GET /api/qr, POST /api/logout)  *)
(* and the message routes (POST /api/send-message, POST /api/send-file).   *)
(*                                                                         *)
(* The runtime is single threaded: a step of the model is one synchronous  *)
(* run of code between two suspension points (an await on the transport,   *)
(* on the request body, on the poll timer or on the image encoder), or one *)
(* transport event delivered to its listener.                              *)
(*                                                                         *)
(* Requests carry no identity of their own: the requests in flight are a   *)
(* bag of records, one per request, each holding the place its handler is  *)
(* suspended at and, once answered, the answer.                            *)
(***************************************************************************)
EXTENDS Integers, FiniteSets, Sequences, Bags, TLC

\* ------------------------------------------------------------------ bounds
NumReqs == 2        \* requests that can be in flight at the same time
MaxQr == 2          \* distinct non-empty pairing codes the transport can issue
MaxPieces == 2      \* pieces a string of a request is built from

\* ------------------------------------------------------- program constants
MaxAttempts == 20   \* auth route: while (... && attempts < 20)
NoQr == 0           \* qrCodeState.qr === null
EmptyQr == -1       \* qrCodeState.qr === '': not null, but falsy
NoTimestamp == 0    \* timestamp of the cleared qrCodeState

NULL == "null"      \* this.client === null
HANDLE == "client"  \* the Client object created by initializeClient

\* The payloads a 'qr' event can carry: the empty string or a pairing code. The
\* handler caches whatever it is given.
Codes == {EmptyQr} \cup 1..MaxQr

\* The readings of Date.now() in the 'qr' handler, none of them the 0 of a
\* cleared cache. The program stores the reading and never reads it, so two
\* readings tell an entry written again from one left as it was.
Times == {1, 2}

SendOps == {"sendMessage", "sendFile"}
Bodies == {"ok", "missing", "malformed"}
Outcomes == {"resolve", "reject"}

VARIABLES
    client,          \* this.client: NULL or HANDLE
    qrCodeState,     \* this.qrCodeState: [qr, timestamp]
    isInitializing,  \* this.isInitializing
    isReady,         \* this.isReady
    listening,       \* the listeners of setupEventHandlers are registered
    req,             \* the bag of requests in flight
    call,            \* one send followed through its data path (DataSpec)
    life,            \* the lifecycle state of spec section 4.1 (LifeSpec)
    boot             \* the constructor's progress and the Client objects (BootSpec)

vars == <<client, qrCodeState, isInitializing, isReady, listening, req,
          call, life, boot>>

\* The variables of the manager, its transport and its requests.
program == <<client, qrCodeState, isInitializing, isReady, listening, req>>

session == <<client, qrCodeState, isInitializing, isReady>>

ClearedQr == [qr |-> NoQr, timestamp |-> NoTimestamp]

\* A request that has been answered: `calls` transport calls were issued for it,
\* `code` is the pairing code its image shows (NoQr when it carries no image).
Done(op, http, error, code, calls) ==
    [op |-> op, pc |-> "done", body |-> "none", attempts |-> 0, code |-> code,
     calls |-> calls, http |-> http, error |-> error]

\* A request suspended at `pc`.
Pending(op, pc, attempts, code, calls) ==
    [op |-> op, pc |-> pc, body |-> "none", attempts |-> attempts, code |-> code,
     calls |-> calls, http |-> "none", error |-> "none"]

InFlight == BagToSet(req)

\* A request arrives, a request moves on, an answered request leaves.
Arrive(new) ==
    /\ BagCardinality(req) < NumReqs
    /\ req' = req (+) SetToBag({new})

Move(old, new) == req' = (req (-) SetToBag({old})) (+) SetToBag({new})

Leave(old) == req' = req (-) SetToBag({old})

\* ------------------------------------------------------- the manager's reads
isClientReady == isReady

isClientInitializing == isInitializing

hasQRCode == qrCodeState.qr # NoQr

\* The gate without its test of isReady.
NotReadyGate_NoFlag == client = NULL

\* The guard of sendMessage and sendFile: !this.client || !this.isReady.
NotReadyGate == client = NULL \/ ~isReady

\* The guard of logout: !this.client.
NoClientToLogout == client = NULL

\* destroy without its early return.
HasClient_Always == TRUE

\* The guard of destroy: is there a client to destroy.
HasClient == client # NULL

\* The listeners stay registered on the Client object for as long as the process
\* lives: no code path removes them.
TransportMayEmit == listening

\* ------------------------------------------------------------ construction
\* The constructor runs initializeClient on the freshly built object: client is
\* null, so it sets isInitializing, creates the client, registers the listeners
\* and calls the transport's initialize.
Constructed ==
    /\ client = HANDLE
    /\ qrCodeState = ClearedQr
    /\ isInitializing = TRUE
    /\ isReady = FALSE
    /\ listening = TRUE
    /\ req = EmptyBag

\* No send is followed through its data path, the lifecycle is not tracked.
NoCall == [kind |-> "none"]

NoLife == "untracked"

\* The constructor is not followed statement by statement.
NoBoot == [pc |-> "constructed"]

Aside == UNCHANGED <<call, life, boot>>

Init == Constructed /\ call = NoCall /\ life = NoLife /\ boot = NoBoot

\* --------------------------------------------------------- transport events
\* The 'qr' handler replacing the code and leaving the timestamp as it was.
OnQr_StaleTimestamp(qr, now) ==
    /\ TransportMayEmit
    /\ qrCodeState' = [qr |-> qr, timestamp |-> qrCodeState.timestamp]
    /\ UNCHANGED <<client, isInitializing, isReady, listening, req>>

\* 'qr': the handler caches the payload it is given, whatever is cached, with
\* the reading of Date.now().
OnQr(qr, now) ==
    /\ TransportMayEmit
    /\ qrCodeState' = [qr |-> qr, timestamp |-> now]
    /\ UNCHANGED <<client, isInitializing, isReady, listening, req>>

OnAuthenticated ==
    /\ TransportMayEmit
    /\ qrCodeState' = ClearedQr
    /\ UNCHANGED <<client, isInitializing, isReady, listening, req>>

\* The 'auth_failure' handler clearing the cached code as 'disconnected' does.
OnAuthFailure_ClearsQr ==
    /\ TransportMayEmit
    /\ isReady' = FALSE
    /\ qrCodeState' = ClearedQr
    /\ UNCHANGED <<client, isInitializing, listening, req>>

OnAuthFailure ==
    /\ TransportMayEmit
    /\ isReady' = FALSE
    /\ UNCHANGED <<client, qrCodeState, isInitializing, listening, req>>

\* The 'ready' handler leaving the cached code in place.
OnReady_KeepsQr ==
    /\ TransportMayEmit
    /\ isInitializing' = FALSE
    /\ isReady' = TRUE
    /\ UNCHANGED <<client, qrCodeState, listening, req>>

OnReady ==
    /\ TransportMayEmit
    /\ isInitializing' = FALSE
    /\ isReady' = TRUE
    /\ qrCodeState' = ClearedQr
    /\ UNCHANGED <<client, listening, req>>

\* The 'disconnected' handler leaving isReady as it is.
OnDisconnected_KeepsReady ==
    /\ TransportMayEmit
    /\ qrCodeState' = ClearedQr
    /\ UNCHANGED <<client, isInitializing, isReady, listening, req>>

OnDisconnected ==
    /\ TransportMayEmit
    /\ isReady' = FALSE
    /\ qrCodeState' = ClearedQr
    /\ UNCHANGED <<client, isInitializing, listening, req>>

\* ------------------------------------------------------------- GET /api/qr
\* getQRCodeImage up to its await: null when the cached code is falsy (null or
\* the empty string), else the encoder is started on the cached code.
getQRCodeImage ==
    IF qrCodeState.qr \in {NoQr, EmptyQr}
    THEN Done("qr", "404", "NOT_AVAILABLE", NoQr, 0)
    ELSE Pending("qr", "render", 0, qrCodeState.qr, 0)

\* The loop test off by one.
KeepWaiting_OneMore(attempts) == ~hasQRCode /\ attempts <= MaxAttempts

\* The loop test of the route's wait.
KeepWaiting(attempts) == ~hasQRCode /\ attempts < MaxAttempts

\* The request arrives: the route runs up to its first await.
QrRequest ==
    /\ Arrive(IF isClientReady
              THEN Done("qr", "400", "ALREADY_AUTHENTICATED", NoQr, 0)
              ELSE IF isClientInitializing /\ ~hasQRCode /\ KeepWaiting(0)
                   THEN Pending("qr", "wait", 0, NoQr, 0)
                   ELSE getQRCodeImage)
    /\ UNCHANGED <<client, qrCodeState, isInitializing, isReady, listening>>

\* The 500ms timer of the wait fires: attempts++, then the loop test.
QrPollTimer(r) ==
    /\ r.pc = "wait"
    /\ Move(r, IF KeepWaiting(r.attempts + 1)
               THEN Pending("qr", "wait", r.attempts + 1, NoQr, 0)
               ELSE getQRCodeImage)
    /\ UNCHANGED <<client, qrCodeState, isInitializing, isReady, listening>>

\* The encoder settles: the image of the code it was started on, or a failure
\* that getQRCodeImage catches and turns into null.
QrEncoded(r, outcome) ==
    /\ r.pc = "render"
    /\ Move(r, IF outcome = "resolve"
               THEN Done("qr", "200", "none", r.code, 0)
               ELSE Done("qr", "404", "NOT_AVAILABLE", NoQr, 0))
    /\ UNCHANGED <<client, qrCodeState, isInitializing, isReady, listening>>

\* ------------------------------- POST /api/send-message, POST /api/send-file
\* The request arrives with its body still to be read: the route tests
\* isClientReady and then awaits c.req.json().
SendRequest(op, body) ==
    /\ Arrive(IF ~isClientReady
              THEN Done(op, "400", "NOT_READY", NoQr, 0)
              ELSE [Pending(op, "body", 0, NoQr, 0) EXCEPT !.body = body])
    /\ UNCHANGED <<client, qrCodeState, isInitializing, isReady, listening>>

\* sendMessage / sendFile of the manager up to the await on the transport: the
\* gate, and with no suspension point in between the transport's sendMessage.
\* The error thrown at the gate reaches the route's catch, which answers 500.
sendMessage(op) ==
    IF NotReadyGate
    THEN Done(op, "500", "NOT_READY", NoQr, 0)
    ELSE Pending(op, "sending", 0, NoQr, 1)

\* The body has been read: a body that is no JSON makes c.req.json() throw, a
\* missing field is answered 400, and a complete body goes to the manager.
SendBodyRead(r) ==
    /\ r.pc = "body"
    /\ Move(r, CASE r.body = "malformed" -> Done(r.op, "500", "BAD_BODY", NoQr, 0)
                 [] r.body = "missing" -> Done(r.op, "400", "VALIDATION_ERROR", NoQr, 0)
                 [] OTHER -> sendMessage(r.op))
    /\ UNCHANGED <<client, qrCodeState, isInitializing, isReady, listening>>

\* A send that is issued again when the transport rejects it.
SendReply_Retry(r, outcome) ==
    /\ r.pc = "sending"
    /\ Move(r, IF outcome = "resolve"
               THEN Done(r.op, "200", "none", NoQr, r.calls)
               ELSE Pending(r.op, "sending", 0, NoQr, r.calls + 1))
    /\ UNCHANGED <<client, qrCodeState, isInitializing, isReady, listening>>

\* A send that looks at the gate again when the transport settles it.
SendReply_GateAgain(r, outcome) ==
    /\ r.pc = "sending"
    /\ Move(r, IF NotReadyGate
               THEN Done(r.op, "500", "NOT_READY", NoQr, r.calls)
               ELSE IF outcome = "resolve"
                    THEN Done(r.op, "200", "none", NoQr, r.calls)
                    ELSE Done(r.op, "500", "TRANSPORT_ERROR", NoQr, r.calls))
    /\ UNCHANGED <<client, qrCodeState, isInitializing, isReady, listening>>

\* The transport settles the send: the message id, or its error rethrown.
SendReply(r, outcome) ==
    /\ r.pc = "sending"
    /\ Move(r, IF outcome = "resolve"
               THEN Done(r.op, "200", "none", NoQr, r.calls)
               ELSE Done(r.op, "500", "TRANSPORT_ERROR", NoQr, r.calls))
    /\ UNCHANGED <<client, qrCodeState, isInitializing, isReady, listening>>

\* -------------------------------------------------------- POST /api/logout
\* logout of the manager up to the await on the transport.
logout ==
    IF NoClientToLogout
    THEN Done("logout", "500", "NO_CLIENT", NoQr, 0)
    ELSE Pending("logout", "loggingOut", 0, NoQr, 1)

\* The request arrives: the route tests isClientReady and calls logout at once.
LogoutRequest ==
    /\ Arrive(IF ~isClientReady
              THEN Done("logout", "400", "NOT_AUTHENTICATED", NoQr, 0)
              ELSE logout)
    /\ UNCHANGED <<client, qrCodeState, isInitializing, isReady, listening>>

\* logout with its cleanup at the end of the try block instead of in finally.
LogoutReply_NoFinally(r, outcome) ==
    /\ r.pc = "loggingOut"
    /\ IF outcome = "resolve"
       THEN isReady' = FALSE /\ qrCodeState' = ClearedQr
       ELSE UNCHANGED <<isReady, qrCodeState>>
    /\ Move(r, IF outcome = "resolve"
               THEN Done("logout", "200", "none", NoQr, r.calls)
               ELSE Done("logout", "500", "TRANSPORT_ERROR", NoQr, r.calls))
    /\ UNCHANGED <<client, isInitializing, listening>>

\* The transport settles the logout; the finally block runs in both cases.
LogoutReply(r, outcome) ==
    /\ r.pc = "loggingOut"
    /\ isReady' = FALSE
    /\ qrCodeState' = ClearedQr
    /\ Move(r, IF outcome = "resolve"
               THEN Done("logout", "200", "none", NoQr, r.calls)
               ELSE Done("logout", "500", "TRANSPORT_ERROR", NoQr, r.calls))
    /\ UNCHANGED <<client, isInitializing, listening>>

\* ------------------------------------------------------------------ destroy
\* destroy up to the await on the transport: nothing to do without a client.
DestroyCall ==
    /\ Arrive(IF ~HasClient
              THEN Done("destroy", "returned", "none", NoQr, 0)
              ELSE Pending("destroy", "destroying", 0, NoQr, 1))
    /\ UNCHANGED <<client, qrCodeState, isInitializing, isReady, listening>>

\* The transport settles the destroy. The fields are reset after the await,
\* inside the try block; the catch block logs the error and does nothing else.
\* destroy returns normally in both cases.
DestroyReply(r, outcome) ==
    /\ r.pc = "destroying"
    /\ IF outcome = "resolve"
       THEN /\ client' = NULL
            /\ isReady' = FALSE
            /\ isInitializing' = FALSE
            /\ qrCodeState' = ClearedQr
       ELSE UNCHANGED <<client, qrCodeState, isInitializing, isReady>>
    /\ Move(r, Done("destroy", "returned",
                    IF outcome = "resolve" THEN "none" ELSE "swallowed",
                    NoQr, r.calls))
    /\ UNCHANGED <<listening>>

\* The response has been delivered to the caller.
Respond(r) ==
    /\ r.pc = "done"
    /\ Leave(r)
    /\ UNCHANGED <<client, qrCodeState, isInitializing, isReady, listening>>

Next ==
    \/ Aside /\ \E qr \in Codes, now \in Times : OnQr(qr, now)
    \/ Aside /\ OnAuthenticated
    \/ Aside /\ OnAuthFailure
    \/ Aside /\ OnReady
    \/ Aside /\ OnDisconnected
    \/ Aside /\ QrRequest
    \/ Aside /\ \E r \in InFlight : QrPollTimer(r)
    \/ Aside /\ \E r \in InFlight, o \in Outcomes : QrEncoded(r, o)
    \/ Aside /\ \E op \in SendOps, b \in Bodies : SendRequest(op, b)
    \/ Aside /\ \E r \in InFlight : SendBodyRead(r)
    \/ Aside /\ \E r \in InFlight, o \in Outcomes : SendReply(r, o)
    \/ Aside /\ LogoutRequest
    \/ Aside /\ \E r \in InFlight, o \in Outcomes : LogoutReply(r, o)
    \/ Aside /\ DestroyCall
    \/ Aside /\ \E r \in InFlight, o \in Outcomes : DestroyReply(r, o)
    \/ Aside /\ \E r \in InFlight : Respond(r)

Spec == Init /\ [][Next]_vars

\* ================================================== lifecycle of the spec
\* The manager keeps no lifecycle state. Spec section 4.1 defines one by its
\* transitions on the transport's events and on logout and destroy requests;
\* LifeSpec is the program with that state tracked beside it.
LifeStates == {"INITIALIZING", "AWAITING_PAIRING", "READY", "DISCONNECTED",
               "TERMINATED"}

LifeAfter(state, event) ==
    CASE event = "pairing-code" /\ state \in {"INITIALIZING", "AWAITING_PAIRING"}
             -> "AWAITING_PAIRING"
      [] event = "ready" /\ state \in {"AWAITING_PAIRING", "INITIALIZING"}
             -> "READY"
      [] event = "disconnected" /\ state = "READY"
             -> "DISCONNECTED"
      [] event \in {"logout", "destroy"} /\ state = "DISCONNECTED"
             -> "TERMINATED"
      [] OTHER
             -> state

Track(event) == life' = LifeAfter(life, event) /\ UNCHANGED <<call, boot>>

\* Process start has taken UNINITIALIZED to INITIALIZING.
InitLife == Constructed /\ call = NoCall /\ life = "INITIALIZING" /\ boot = NoBoot

NextLife ==
    \/ Track("pairing-code") /\ \E qr \in Codes, now \in Times : OnQr(qr, now)
    \/ Track("authenticated") /\ OnAuthenticated
    \/ Track("auth-failure") /\ OnAuthFailure
    \/ Track("ready") /\ OnReady
    \/ Track("disconnected") /\ OnDisconnected
    \/ Track("none") /\ QrRequest
    \/ Track("none") /\ \E r \in InFlight : QrPollTimer(r)
    \/ Track("none") /\ \E r \in InFlight, o \in Outcomes : QrEncoded(r, o)
    \/ Track("none") /\ \E op \in SendOps, b \in Bodies : SendRequest(op, b)
    \/ Track("none") /\ \E r \in InFlight : SendBodyRead(r)
    \/ Track("none") /\ \E r \in InFlight, o \in Outcomes : SendReply(r, o)
    \/ Track("logout") /\ LogoutRequest
    \/ Track("none") /\ \E r \in InFlight, o \in Outcomes : LogoutReply(r, o)
    \/ Track("destroy") /\ DestroyCall
    \/ Track("none") /\ \E r \in InFlight, o \in Outcomes : DestroyReply(r, o)
    \/ Track("none") /\ \E r \in InFlight : Respond(r)

LifeSpec == InitLife /\ [][NextLife]_vars

\* ===================================================== the constructor
\* BootSpec is the program from the evaluation of the module: the fields have
\* their initialisers, the constructor runs initializeClient one statement at a
\* time, and the requests and the transport's events follow once it has
\* returned (the module is evaluated in one synchronous run). boot holds the
\* place of the constructor and what the transport has been asked to do: how
\* many Client objects were created, how many were destroyed, and whether
\* initialize was invoked.

\* initializeClient creating a second Client after the listeners are registered.
InitSteps_CreatesAgain == <<"guard", "flag", "create", "listen", "create", "start">>

\* initializeClient invoking the transport's initialize before the listeners
\* are registered.
InitSteps_StartsFirst == <<"guard", "flag", "create", "start", "listen">>

\* The statements of initializeClient in their order: the test of this.client,
\* isInitializing = true, new Client, setupEventHandlers(), client.initialize().
InitSteps == <<"guard", "flag", "create", "listen", "start">>

FirstStep == 1

Returned == Len(InitSteps) + 1

Booted == boot.pc = Returned

Statement == IF Booted THEN "none" ELSE InitSteps[boot.pc]

\* The field initialisers of the class; nothing asked of the transport yet.
InitBoot ==
    /\ client = NULL
    /\ qrCodeState = ClearedQr
    /\ isInitializing = FALSE
    /\ isReady = FALSE
    /\ listening = FALSE
    /\ req = EmptyBag
    /\ call = NoCall
    /\ life = NoLife
    /\ boot = [pc |-> FirstStep, created |-> 0, destroyed |-> 0, started |-> FALSE]

\* if (this.client) return;
GuardClient ==
    /\ Statement = "guard"
    /\ boot' = [boot EXCEPT !.pc = IF client # NULL THEN Returned ELSE @ + 1]
    /\ UNCHANGED <<program, call, life>>

\* this.isInitializing = true;
SetInitializing ==
    /\ Statement = "flag"
    /\ isInitializing' = TRUE
    /\ boot' = [boot EXCEPT !.pc = @ + 1]
    /\ UNCHANGED <<client, qrCodeState, isReady, listening, req, call, life>>

\* this.client = new Client(...);
CreateClient ==
    /\ Statement = "create"
    /\ client' = HANDLE
    /\ boot' = [boot EXCEPT !.pc = @ + 1, !.created = @ + 1]
    /\ UNCHANGED <<qrCodeState, isInitializing, isReady, listening, req,
                   call, life>>

\* this.setupEventHandlers(): returns at once without a client, else registers
\* the listeners on it.
RegisterListeners ==
    /\ Statement = "listen"
    /\ listening' = (listening \/ client # NULL)
    /\ boot' = [boot EXCEPT !.pc = @ + 1]
    /\ UNCHANGED <<client, qrCodeState, isInitializing, isReady, req,
                   call, life>>

\* this.client.initialize();
StartTransport ==
    /\ Statement = "start"
    /\ boot' = [boot EXCEPT !.pc = @ + 1, !.started = TRUE]
    /\ UNCHANGED <<program, call, life>>

\* A step of the constructed program that creates and destroys no Client.
Run == Booted /\ UNCHANGED <<call, life, boot>>

\* The transport settles a destroy: by resolving it has destroyed the Client.
Destroyed(r, outcome) ==
    /\ Booted
    /\ DestroyReply(r, outcome)
    /\ boot' = [boot EXCEPT !.destroyed =
                    IF outcome = "resolve" /\ client # NULL THEN @ + 1 ELSE @]
    /\ UNCHANGED <<call, life>>

NextBoot ==
    \/ GuardClient
    \/ SetInitializing
    \/ CreateClient
    \/ RegisterListeners
    \/ StartTransport
    \/ Run /\ \E qr \in Codes, now \in Times : OnQr(qr, now)
    \/ Run /\ OnAuthenticated
    \/ Run /\ OnAuthFailure
    \/ Run /\ OnReady
    \/ Run /\ OnDisconnected
    \/ Run /\ QrRequest
    \/ Run /\ \E r \in InFlight : QrPollTimer(r)
    \/ Run /\ \E r \in InFlight, o \in Outcomes : QrEncoded(r, o)
    \/ Run /\ \E op \in SendOps, b \in Bodies : SendRequest(op, b)
    \/ Run /\ \E r \in InFlight : SendBodyRead(r)
    \/ Run /\ \E r \in InFlight, o \in Outcomes : SendReply(r, o)
    \/ Run /\ LogoutRequest
    \/ Run /\ \E r \in InFlight, o \in Outcomes : LogoutReply(r, o)
    \/ Run /\ DestroyCall
    \/ \E r \in InFlight, o \in Outcomes : Destroyed(r, o)
    \/ Run /\ \E r \in InFlight : Respond(r)

BootSpec == InitBoot /\ [][NextBoot]_vars

\* =========================================================== data of a send
\* Strings are sequences of characters. The operators below are the library
\* calls the program makes on them.
Digits == {"0", "1", "2", "3", "4", "5", "6", "7", "8", "9"}

UpperCase == <<"A", "B", "C", "D", "E", "F", "G", "H", "I", "J", "K", "L", "M", "N", "O", "P", "Q", "R", "S", "T", "U", "V", "W", "X", "Y", "Z">>

LowerCase == <<"a", "b", "c", "d", "e", "f", "g", "h", "i", "j", "k", "l", "m", "n", "o", "p", "q", "r", "s", "t", "u", "v", "w", "x", "y", "z">>

\* One character of String.prototype.toLowerCase.
LowerChar(c) ==
    IF \E i \in 1..Len(UpperCase) : UpperCase[i] = c
    THEN LowerCase[CHOOSE i \in 1..Len(UpperCase) : UpperCase[i] = c]
    ELSE c

toLowerCase(s) == [i \in 1..Len(s) |-> LowerChar(s[i])]

\* The places where pat occurs in s.
Occurrences(s, pat) ==
    {i \in 1..(Len(s) - Len(pat) + 1) : SubSeq(s, i, i + Len(pat) - 1) = pat}

\* String.prototype.includes
includes(s, pat) == Occurrences(s, pat) # {}

\* String.prototype.indexOf, counted from 1
indexOf(s, pat) ==
    CHOOSE i \in Occurrences(s, pat) : \A j \in Occurrences(s, pat) : i <= j

\* String.prototype.split with a non-empty separator: the pieces between the
\* occurrences of sep, found from left to right.
RECURSIVE split(_, _)
split(s, sep) ==
    IF ~includes(s, sep)
    THEN <<s>>
    ELSE LET i == indexOf(s, sep)
         IN  <<SubSeq(s, 1, i - 1)>> \o split(SubSeq(s, i + Len(sep), Len(s)), sep)

\* Array.prototype.pop on a non-empty array: its last element.
pop(a) == a[Len(a)]

\* phone.replace(/[^0-9]/g, '')
IsDigit(c) == c \in Digits

\* Without the g flag: only the first character that is not a digit goes.
replaceNonDigits_FirstOnly(s) ==
    LET others == {i \in 1..Len(s) : ~IsDigit(s[i])}
    IN  IF others = {}
        THEN s
        ELSE LET i == CHOOSE k \in others : \A j \in others : k <= j
             IN  SubSeq(s, 1, i - 1) \o SubSeq(s, i + 1, Len(s))

replaceNonDigits(s) == SelectSeq(s, IsDigit)

GroupSuffix == <<"@", "g", ".", "u", "s">>

UserSuffix == <<"@", "c", ".", "u", "s">>

\* The group suffix is appended without looking at the phone.
formatChatId_AlwaysAppends(phone, isGroup) ==
    IF isGroup
    THEN phone \o GroupSuffix
    ELSE replaceNonDigits(phone) \o UserSuffix

formatChatId(phone, isGroup) ==
    IF isGroup
    THEN IF includes(phone, GroupSuffix) THEN phone ELSE phone \o GroupSuffix
    ELSE replaceNonDigits(phone) \o UserSuffix

\* The mimeTypes object literal of getMimeType.
mimeTypes ==
    (<<"j", "p", "g">> :> "image/jpeg") @@
    (<<"j", "p", "e", "g">> :> "image/jpeg") @@
    (<<"p", "n", "g">> :> "image/png") @@
    (<<"g", "i", "f">> :> "image/gif") @@
    (<<"w", "e", "b", "p">> :> "image/webp") @@
    (<<"b", "m", "p">> :> "image/bmp") @@
    (<<"s", "v", "g">> :> "image/svg+xml") @@
    (<<"p", "d", "f">> :> "application/pdf") @@
    (<<"d", "o", "c">> :> "application/msword") @@
    (<<"d", "o", "c", "x">> :> "application/vnd.openxmlformats-officedocument.wordprocessingml.document") @@
    (<<"x", "l", "s">> :> "application/vnd.ms-excel") @@
    (<<"x", "l", "s", "x">> :> "application/vnd.openxmlformats-officedocument.spreadsheetml.sheet") @@
    (<<"p", "p", "t">> :> "application/vnd.ms-powerpoint") @@
    (<<"p", "p", "t", "x">> :> "application/vnd.openxmlformats-officedocument.presentationml.presentation") @@
    (<<"t", "x", "t">> :> "text/plain") @@
    (<<"c", "s", "v">> :> "text/csv") @@
    (<<"m", "p", "3">> :> "audio/mpeg") @@
    (<<"w", "a", "v">> :> "audio/wav") @@
    (<<"o", "g", "g">> :> "audio/ogg") @@
    (<<"m", "4", "a">> :> "audio/mp4") @@
    (<<"m", "p", "4">> :> "video/mp4") @@
    (<<"a", "v", "i">> :> "video/x-msvideo") @@
    (<<"m", "o", "v">> :> "video/quicktime") @@
    (<<"w", "m", "v">> :> "video/x-ms-wmv") @@
    (<<"z", "i", "p">> :> "application/zip") @@
    (<<"r", "a", "r">> :> "application/x-rar-compressed") @@
    (<<"7", "z">> :> "application/x-7z-compressed")

OctetStream == "application/octet-stream"

\* mimeTypes is an object literal: a key it does not define is looked up in
\* Object.prototype. An extension is lower case, so the only inherited keys it
\* can hit are these two; each yields an object, which is truthy and is
\* returned in place of a MIME type.
InheritedKeys == {<<"c", "o", "n", "s", "t", "r", "u", "c", "t", "o", "r">>, <<"_", "_", "p", "r", "o", "t", "o", "_", "_">>}

InheritedObject == "[object]"

Lookup(key) ==
    IF key \in DOMAIN mimeTypes THEN mimeTypes[key]
    ELSE IF key \in InheritedKeys THEN InheritedObject
    ELSE OctetStream

getMimeType(filename) == Lookup(toLowerCase(pop(split(filename, <<".">>))))

Marker == <<"b", "a", "s", "e", "6", "4", ",">>

\* POST /api/send-file: the data URI prefix is removed from body.base64.
stripDataUri(base64) ==
    IF includes(base64, Marker) THEN split(base64, Marker)[2] ELSE base64

\* The strings a request can carry are built from at most MaxPieces pieces.
RECURSIVE Words(_, _)
Words(pieces, n) ==
    IF n = 0
    THEN {<<>>}
    ELSE Words(pieces, n - 1) \cup {w \o p : w \in Words(pieces, n - 1), p \in pieces}

PhonePieces == {GroupSuffix, <<"1", "-", "2">>, <<"+">>, <<"9">>}

FilePieces == {<<"a", ".">>, <<"p", "d", "f">>, <<"P", "D", "F">>,
               <<".", "J", "p", "g">>, <<"x">>}

ContentPieces == {<<"d", ":">> \o Marker, Marker \o <<"Z">>, <<"Q", "Q">>, <<",">>}

Phones == Words(PhonePieces, MaxPieces)

Filenames == Words(FilePieces, MaxPieces)

Contents == Words(ContentPieces, MaxPieces)

Messages == {<<>>, <<"h", "i">>}

\* A send-file request is followed for an absent and for a present phone.
FilePhones == {<<>>, <<"9">>}

\* A call as it is made: nothing computed yet.
Called(kind, phone, isGroup, filename, content) ==
    [kind |-> kind, phone |-> phone, isGroup |-> isGroup, filename |-> filename,
     content |-> content, pc |-> "called", chatId |-> <<>>, again |-> <<>>,
     mimetype |-> "none", data |-> <<>>, http |-> "none"]

Calls ==
    {Called("formatChatId", p, g, <<>>, <<>>) : p \in Phones, g \in BOOLEAN}
    \cup {Called("getMimeType", <<>>, FALSE, f, <<>>) : f \in Filenames}
    \cup {Called("send-message", p, g, <<>>, m) :
              p \in Phones, g \in BOOLEAN, m \in Messages}
    \cup {Called("send-file", p, g, f, c) :
              p \in FilePhones, g \in BOOLEAN, f \in Filenames, c \in Contents}

\* The manager is constructed (not ready) or has handled the ready event.
InitData ==
    /\ client = HANDLE
    /\ qrCodeState = ClearedQr
    /\ isReady \in BOOLEAN
    /\ isInitializing = ~isReady
    /\ listening = TRUE
    /\ req = EmptyBag
    /\ life = NoLife
    /\ boot = NoBoot
    /\ call \in Calls

ApplyFormatChatId ==
    /\ call.kind = "formatChatId"
    /\ call.pc = "called"
    /\ call' = [call EXCEPT !.pc = "returned",
                            !.chatId = formatChatId(call.phone, call.isGroup)]
    /\ UNCHANGED <<program, life, boot>>

\* The address formatChatId returned is given to it again.
ApplyFormatChatIdAgain ==
    /\ call.kind = "formatChatId"
    /\ call.pc = "returned"
    /\ call' = [call EXCEPT !.pc = "again",
                            !.again = formatChatId(call.chatId, call.isGroup)]
    /\ UNCHANGED <<program, life, boot>>

ApplyGetMimeType ==
    /\ call.kind = "getMimeType"
    /\ call.pc = "called"
    /\ call' = [call EXCEPT !.pc = "returned",
                            !.mimetype = getMimeType(call.filename)]
    /\ UNCHANGED <<program, life, boot>>

\* POST /api/send-message from the body to the transport's sendMessage: the
\* route's validation, the manager's gate, client.sendMessage(chatId, message).
RouteSendMessage ==
    /\ call.kind = "send-message"
    /\ call.pc = "called"
    /\ call' =
          IF call.phone = <<>> \/ call.content = <<>>
          THEN [call EXCEPT !.pc = "done", !.http = "400"]
          ELSE IF NotReadyGate
               THEN [call EXCEPT !.pc = "done", !.http = "500"]
               ELSE [call EXCEPT !.pc = "sent",
                                 !.chatId = formatChatId(call.phone, call.isGroup),
                                 !.data = call.content]
    /\ UNCHANGED <<program, life, boot>>

\* POST /api/send-file from the body to the transport's sendMessage: the
\* route's validation and prefix removal, the manager's gate,
\* client.sendMessage(chatId, new MessageMedia(mimeType, base64, filename)).
RouteSendFile ==
    /\ call.kind = "send-file"
    /\ call.pc = "called"
    /\ call' =
          IF call.phone = <<>> \/ call.filename = <<>> \/ call.content = <<>>
          THEN [call EXCEPT !.pc = "done", !.http = "400"]
          ELSE IF NotReadyGate
               THEN [call EXCEPT !.pc = "done", !.http = "500"]
               ELSE [call EXCEPT !.pc = "sent",
                                 !.chatId = formatChatId(call.phone, call.isGroup),
                                 !.mimetype = getMimeType(call.filename),
                                 !.data = stripDataUri(call.content)]
    /\ UNCHANGED <<program, life, boot>>

NextData ==
    \/ ApplyFormatChatId
    \/ ApplyFormatChatIdAgain
    \/ ApplyGetMimeType
    \/ RouteSendMessage
    \/ RouteSendFile

DataSpec == InitData /\ [][NextData]_vars

\* ==================================================================== claims
\* What a step does to the requests: the record a request had before the step
\* (none when it arrives in the step) and the record it has after it (none when
\* it leaves).
StepFrom == {x \in BagToSet(req) : CopiesIn(x, req') < CopiesIn(x, req)}

StepTo == {x \in BagToSet(req') : CopiesIn(x, req') > CopiesIn(x, req)}

Arrived == IF StepFrom = {} THEN StepTo ELSE {}

\* The session is not READY, as the dispatch operations see it.
SessionNotReady == client = NULL \/ ~isReady

RefusedByRoute(op) == Done(op, "400", "NOT_READY", NoQr, 0)

RefusedByManager(op) == Done(op, "500", "NOT_READY", NoQr, 0)

\* C1: while the session is not READY (isReady false or no client), a call of
\* sendMessage or sendFile fails with the not-ready error and issues no send on
\* the transport; a send is issued on the transport only in a step that starts
\* in READY, so no transport event is handled between the gate and the send.
C1_NotReadySendFails ==
    [][ /\ \A b \in StepFrom, a \in StepTo :
              b.pc = "body" /\ b.body = "ok" /\ SessionNotReady
                  => a = RefusedByManager(b.op)
        /\ \A a \in Arrived :
              a.op \in SendOps /\ ~isReady => a = RefusedByRoute(a.op)
        /\ \A a \in StepTo :
              a.op \in SendOps /\ a.calls > 0 /\ (\A b \in StepFrom : b.calls = 0)
                  => ~SessionNotReady ]_vars

C1_Witness ==
    \E x \in InFlight :
        x.op \in SendOps /\ x = RefusedByManager(x.op) /\ client = HANDLE /\ ~isReady

\* C2: when the transport settles a logout, by resolving or by raising an error,
\* logout returns with isReady false and the pairing payload cleared.
C2_LogoutAlwaysCleans ==
    [][ \A b \in StepFrom :
            b.pc = "loggingOut"
                => /\ ~isReady'
                   /\ qrCodeState' = ClearedQr
                   /\ \E a \in StepTo : a.pc = "done" /\ a.op = "logout" ]_vars

C2_Witness ==
    /\ Done("logout", "500", "TRANSPORT_ERROR", NoQr, 1) \in InFlight
    /\ ~isReady
    /\ qrCodeState = ClearedQr

\* C3: a pairing-code event replaces whatever is cached by the new code and its
\* timestamp; a GET /api/qr call that arrives afterwards while the session is not
\* READY starts the rendering of the cached code, which is the newest one; no
\* rendering is started on another code, and the image a request returns is the
\* one its rendering was started on.
C3_NewestCodeOnly ==
    [][ /\ \A qr \in Codes, now \in Times :
              OnQr(qr, now) => qrCodeState' = [qr |-> qr, timestamp |-> now]
        /\ req' # req
              => \A a \in StepTo :
                    /\ StepFrom = {} /\ a.op = "qr" /\ ~isReady /\ qrCodeState.qr \in 1..MaxQr
                          => a = Pending("qr", "render", 0, qrCodeState.qr, 0)
                    /\ a.pc = "render"
                          => a.code = qrCodeState.qr /\ a.code \in 1..MaxQr
                    /\ a.http = "200" /\ a.op = "qr"
                          => \E b \in StepFrom : b.pc = "render" /\ b.code = a.code ]_vars

\* The first code was rendered for one request; the second code is cached in its
\* place and is the one the later request shows.
C3_Witness ==
    /\ qrCodeState.qr = 2
    /\ Done("qr", "200", "none", 1, 0) \in InFlight
    /\ Done("qr", "200", "none", 2, 0) \in InFlight

\* C4: handling the ready event leaves isReady true and the pairing payload
\* absent, and a GET /api/qr request that arrives while isReady is true is
\* answered 400 ALREADY_AUTHENTICATED at once, without an image.
C4_ReadyRefusesPairing ==
    [][ /\ OnReady => isClientReady' /\ ~hasQRCode' /\ qrCodeState' = ClearedQr
        /\ ~isReady /\ isReady' => qrCodeState' = ClearedQr
        /\ \A a \in Arrived :
              a.op = "qr" /\ isReady
                  => a = Done("qr", "400", "ALREADY_AUTHENTICATED", NoQr, 0) ]_vars

C4_Witness ==
    /\ isReady
    /\ qrCodeState = ClearedQr
    /\ Done("qr", "400", "ALREADY_AUTHENTICATED", NoQr, 0) \in InFlight

\* C5: handling the disconnected event in READY leaves isReady false and the
\* pairing payload absent; isReady stays false until a ready event, and until
\* then every send is refused as not ready without a call on the transport.
C5_DisconnectRefusesSends ==
    [][ /\ isReady /\ OnDisconnected => ~isClientReady' /\ qrCodeState' = ClearedQr
        /\ ~isReady /\ isReady' => OnReady
        /\ \A a \in Arrived :
              a.op \in SendOps /\ ~isReady => a = RefusedByRoute(a.op)
        /\ \A b \in StepFrom, a \in StepTo :
              b.pc = "body" /\ b.body = "ok" /\ ~isReady
                  => a = RefusedByManager(b.op) ]_vars

\* A send refused after the session was READY once and is no longer.
C5_Witness ==
    /\ ~isReady /\ ~isInitializing /\ client = HANDLE /\ qrCodeState = ClearedQr
    /\ RefusedByRoute("sendMessage") \in InFlight

\* C6: a logout request that arrives while the session is not READY (isReady
\* false or no client) is answered 400 NOT_AUTHENTICATED, issues no logout on
\* the transport and changes no field of the session.
C6_LogoutRefusedUnlessReady ==
    [][ \A a \in Arrived :
            a.op = "logout" /\ SessionNotReady
                => /\ a = Done("logout", "400", "NOT_AUTHENTICATED", NoQr, 0)
                   /\ UNCHANGED session ]_vars

\* C7: whenever destroy returns, also when the transport's destroy raised an
\* error, the client is null, isReady and isInitializing are false and the
\* pairing payload is absent.
C7_DestroyAlwaysResets ==
    [][ \A a \in StepTo :
            a.op = "destroy" /\ a.pc = "done"
                => /\ client' = NULL
                   /\ ~isReady'
                   /\ ~isInitializing'
                   /\ qrCodeState' = ClearedQr ]_vars

\* C8: destroy called without a client returns at once, with no call on the
\* transport and no field of the session changed; a destroy the transport
\* carried out leaves no client, so that a second destroy is such a call.
C8_DestroyIdempotent ==
    [][ /\ \A a \in Arrived :
              a.op = "destroy" /\ client = NULL
                  => /\ a = Done("destroy", "returned", "none", NoQr, 0)
                     /\ UNCHANGED session
        /\ \A b \in StepFrom, a \in StepTo :
              b.pc = "destroying" /\ a.error = "none"
                  => /\ client' = NULL
                     /\ ~isReady' /\ ~isInitializing' /\ qrCodeState' = ClearedQr ]_vars

\* The second destroy has returned without a call on the transport.
C8_Witness ==
    /\ client = NULL
    /\ Done("destroy", "returned", "none", NoQr, 0) \in InFlight

\* A send the gate admitted: it is on the transport, or the transport settled it.
Admitted(x) ==
    /\ x.op \in SendOps
    /\ \/ x.pc = "sending"
       \/ x.pc = "done" /\ x.http = "200"
       \/ x.pc = "done" /\ x.error = "TRANSPORT_ERROR"

\* C9: every admitted send has issued exactly one send on the transport, and
\* every other send request none; a send on the transport is settled once, the
\* rejection goes to the request that issued it and no other request changes.
C9_ExactlyOneSend ==
    /\ [](\A x \in InFlight :
              x.op \in SendOps => x.calls = (IF Admitted(x) THEN 1 ELSE 0))
    /\ [][ /\ \A b \in StepFrom :
                 b.pc = "sending"
                     => \E a \in StepTo :
                            /\ a.pc = "done" /\ a.op = b.op /\ a.calls = b.calls
                            /\ req' = (req (-) SetToBag({b})) (+) SetToBag({a})
           /\ \A a \in StepTo :
                 a.op \in SendOps /\ a.error = "TRANSPORT_ERROR"
                     => \E b \in StepFrom : b.pc = "sending" /\ b.op = a.op ]_vars

\* Two sends admitted side by side: one rejected, the other still on the transport.
C9_Witness ==
    /\ Pending("sendMessage", "sending", 0, NoQr, 1) \in InFlight
    /\ Done("sendFile", "500", "TRANSPORT_ERROR", NoQr, 1) \in InFlight

\* C10: a waiting GET /api/qr request has re-checked the cache fewer than 20
\* times; each timer either finds a payload and stops waiting (a pairing code
\* starts to be rendered, the empty string is answered 404 NOT_AVAILABLE), or
\* counts one more attempt, and the 20th without a payload answers 404
\* NOT_AVAILABLE.
\* A request that arrives while the session is neither READY nor initializing
\* and nothing is cached is answered 404 NOT_AVAILABLE at once; one that arrives
\* while it is initializing and nothing is cached starts to wait.
C10_BoundedWait ==
    /\ [](\A x \in InFlight : x.pc = "wait" => x.attempts \in 0..(MaxAttempts - 1))
    /\ [][ /\ \A b \in StepFrom :
                 b.pc = "wait"
                     => StepTo =
                          { IF qrCodeState.qr \in 1..MaxQr
                            THEN Pending("qr", "render", 0, qrCodeState.qr, 0)
                            ELSE IF qrCodeState.qr = EmptyQr
                            THEN Done("qr", "404", "NOT_AVAILABLE", NoQr, 0)
                            ELSE IF b.attempts + 1 < MaxAttempts
                                 THEN Pending("qr", "wait", b.attempts + 1, NoQr, 0)
                                 ELSE Done("qr", "404", "NOT_AVAILABLE", NoQr, 0) }
           /\ \A a \in Arrived :
                 a.op = "qr" /\ ~isReady /\ qrCodeState.qr = NoQr
                     => a = IF isInitializing
                            THEN Pending("qr", "wait", 0, NoQr, 0)
                            ELSE Done("qr", "404", "NOT_AVAILABLE", NoQr, 0) ]_vars

\* A request about to re-check the cache for the 20th time.
C10_Witness == Pending("qr", "wait", MaxAttempts - 1, NoQr, 0) \in InFlight

\* C11: a send-message or send-file request that is refused because the session
\* is not READY is answered 400, never 500, whether the route or the manager
\* refuses it (the manager does when the session leaves READY while the body is
\* read).
C11_NotReadyIs400 ==
    \A x \in InFlight :
        x.op \in SendOps /\ x.error = "NOT_READY" => x.http = "400"

\* C12: a GET /api/qr request whose image was requested while a payload was
\* cached ends with the image or with an error, never with NOT_AVAILABLE, and
\* the rendering changes no field of the session.
C12_EncoderFailureIsAnError ==
    [][ \A b \in StepFrom, a \in StepTo :
            b.pc = "render"
                => /\ a.error # "NOT_AVAILABLE"
                   /\ session' = session ]_vars

\* ------------------------------------------------- claims on the data path
EndsWith(s, suffix) ==
    /\ Len(s) >= Len(suffix)
    /\ SubSeq(s, Len(s) - Len(suffix) + 1, Len(s)) = suffix

\* The digits of s, in their order.
RECURSIVE DigitsOf(_)
DigitsOf(s) ==
    IF s = <<>>
    THEN <<>>
    ELSE (IF Head(s) \in Digits THEN <<Head(s)>> ELSE <<>>) \o DigitsOf(Tail(s))

HasDot(s) == \E i \in 1..Len(s) : s[i] = "."

\* What follows the last "." of a string that has one.
AfterFinalDot(s) ==
    LET last == CHOOSE i \in 1..Len(s) :
                    s[i] = "." /\ \A j \in (i + 1)..Len(s) : s[j] # "."
    IN  SubSeq(s, last + 1, Len(s))

\* What follows the first occurrence of pat in a string that has one, to the
\* end of the string.
AfterFirst(s, pat) ==
    LET first == CHOOSE i \in Occurrences(s, pat) :
                     \A j \in Occurrences(s, pat) : i <= j
    IN  SubSeq(s, first + Len(pat), Len(s))

\* C13: formatting a group address a second time changes nothing:
\* formatChatId(formatChatId(raw, true), true) = formatChatId(raw, true).
C13_GroupFormatIdempotent ==
    call.kind = "formatChatId" /\ call.pc = "again" /\ call.isGroup
        => call.again = call.chatId

\* A phone without the suffix got it once, and only once.
C13_Witness ==
    /\ call.kind = "formatChatId"
    /\ call.pc = "again"
    /\ call.isGroup
    /\ call.phone = <<"9">>
    /\ call.again = <<"9">> \o GroupSuffix

\* C14: formatChatId(raw, true) is raw itself exactly when raw ends with
\* "@g.us" and raw followed by "@g.us" otherwise, so it always ends with
\* "@g.us".
C14_GroupSuffixAtEnd ==
    call.kind = "formatChatId" /\ call.pc = "returned" /\ call.isGroup
        => /\ call.chatId = IF EndsWith(call.phone, GroupSuffix)
                            THEN call.phone
                            ELSE call.phone \o GroupSuffix
           /\ EndsWith(call.chatId, GroupSuffix)

\* C15: formatChatId(raw, false) is the digits of raw in their order followed
\* by "@c.us"; a send-message request with a phone and a message, made while
\* the session is READY, reaches the transport with that address whatever the
\* phone is, with the bare "@c.us" when the phone has no digit.
C15_UserAddressIsDigits ==
    /\ call.kind = "formatChatId" /\ call.pc = "returned" /\ ~call.isGroup
           => call.chatId = DigitsOf(call.phone) \o UserSuffix
    /\ call.kind \in {"send-message", "send-file"} /\ call.pc = "sent"
       /\ ~call.isGroup
           => call.chatId = DigitsOf(call.phone) \o UserSuffix
    /\ call.kind = "send-message" /\ call.pc # "called" /\ ~NotReadyGate
       /\ call.phone # <<>> /\ call.content # <<>>
           => call.pc = "sent"

\* A phone without a digit went to the transport as "@c.us".
C15_Witness ==
    /\ call.kind = "send-message"
    /\ call.pc = "sent"
    /\ ~call.isGroup
    /\ call.phone = <<"+">>
    /\ call.chatId = UserSuffix

\* C16: getMimeType returns "application/octet-stream" for a filename without
\* a "." and for one whose lower-cased part after the last "." is no key of
\* the table, and the table's entry for that part otherwise.
C16_MimeByExtension ==
    call.kind = "getMimeType" /\ call.pc = "returned"
        => call.mimetype =
              IF ~HasDot(call.filename)
              THEN OctetStream
              ELSE IF toLowerCase(AfterFinalDot(call.filename)) \in DOMAIN mimeTypes
                   THEN mimeTypes[toLowerCase(AfterFinalDot(call.filename))]
                   ELSE OctetStream

\* C17: the content of a send-file request reaches the transport as what
\* follows the first "base64," to the end of the string when it has one, and
\* unchanged when it has none.
C17_ContentAfterFirstMarker ==
    call.kind = "send-file" /\ call.pc = "sent"
        => call.data = IF includes(call.content, Marker)
                       THEN AfterFirst(call.content, Marker)
                       ELSE call.content

\* ------------------------------------------------- claims on the lifecycle
\* C18: in every reachable state, whatever the order of the transport's
\* events, a pairing payload is cached only while the session awaits pairing:
\* never while isReady is true, never without a client.
C18_PayloadOnlyWhilePairing ==
    qrCodeState.qr # NoQr => ~isReady /\ client = HANDLE

\* C20: while a logout is in flight on the transport, isReady is false and the
\* pairing payload is cleared, so no send and no second logout passes the
\* readiness check.
C20_LogoutClearsFirst ==
    \A x \in InFlight :
        x.pc = "loggingOut" => ~isReady /\ qrCodeState = ClearedQr

\* C19: isReady is true exactly when the lifecycle state, driven by the
\* transitions of spec section 4.1 on pairing-code, ready, disconnected,
\* auth-failure, logout and destroy, is READY.
C19_ReadyFlagIsStateReady == isReady <=> life = "READY"

\* C22: once an admitted logout has completed, the client has been released
\* (this.client is null), so that the session can be initialized again.
C22_LogoutReleasesClient ==
    \A x \in InFlight :
        x.op = "logout" /\ x.pc = "done" /\ x.calls > 0 => client = NULL

\* C23: the auth_failure handler sets isReady to false and leaves the cached
\* code and its timestamp, the client and isInitializing as they are.
C23_AuthFailureOnlyClearsReady ==
    [][ OnAuthFailure
            => /\ ~isReady'
               /\ qrCodeState' = qrCodeState
               /\ client' = client
               /\ isInitializing' = isInitializing ]_vars

\* After a code was cached in READY, the session is not READY and the code is
\* still cached.
C23_Witness ==
    /\ ~isReady /\ ~isInitializing /\ client = HANDLE
    /\ qrCodeState = [qr |-> 1, timestamp |-> 1]

\* What the route answers when the transport settles a send.
TransportOutcome(r, outcome) ==
    IF outcome = "resolve"
    THEN Done(r.op, "200", "none", NoQr, r.calls)
    ELSE Done(r.op, "500", "TRANSPORT_ERROR", NoQr, r.calls)

\* C24: a disconnected or auth_failure event changes no request; a send that
\* is on the transport is answered with the transport's outcome whatever the
\* session has become meanwhile; a send is refused as not ready only before it
\* has been issued on the transport, in a step that starts outside READY.
C24_EventsSpareInFlightSends ==
    [][ /\ OnDisconnected \/ OnAuthFailure => req' = req
        /\ \A r \in InFlight, o \in Outcomes :
              SendReply(r, o) => StepTo = {TransportOutcome(r, o)}
        /\ \A a \in StepTo :
              a.op \in SendOps /\ a.error = "NOT_READY"
                  => /\ a.calls = 0
                     /\ \A b \in StepFrom : b.pc = "body"
                     /\ SessionNotReady ]_vars

\* A send still on the transport after the session left READY.
C24_Witness ==
    /\ Pending("sendMessage", "sending", 0, NoQr, 1) \in InFlight
    /\ ~isReady /\ ~isInitializing /\ client = HANDLE

\* C26: in every reachable state isReady true implies that this.client is not
\* null, also when the transport emits on the listeners of a client that
\* destroy has released.
C26_ReadyImpliesClient == isReady => client # NULL

\* ----------------------------------------------- claims on the constructor
\* The Client objects created and not destroyed.
Live == boot.created - boot.destroyed

\* A step in which a listener runs: the constructor does not move.
TransportEvent ==
    /\ boot' = boot
    /\ \/ \E qr \in Codes, now \in Times : OnQr(qr, now)
       \/ OnAuthenticated
       \/ OnAuthFailure
       \/ OnReady
       \/ OnDisconnected

\* C21: whatever the constructor, the transport's events, logout and destroy
\* have done, at most one Client is live (created and not destroyed), and a
\* Client is created only while the manager holds none.
C21_AtMostOneLiveClient ==
    /\ [](Live \in {0, 1})
    /\ [][ boot'.created > boot.created => client = NULL /\ Live = 0 ]_vars

\* The one Client was created and a destroy has destroyed it.
C21_Witness ==
    /\ Booted
    /\ boot.created = 1 /\ boot.destroyed = 1
    /\ client = NULL

\* C25: initializeClient runs once, when the module is evaluated: it sets
\* isInitializing, then creates the Client, then registers the listeners and
\* only then invokes the transport's initialize; the transport emits no event
\* before that, and isInitializing is never set to true again.
C25_InitializedOnceInOrder ==
    /\ [](/\ boot.started => listening
          /\ listening => boot.created > 0
          /\ boot.created > 0 /\ ~Booted => isInitializing
          /\ boot.created <= 1
          /\ Booted => boot.created = 1 /\ boot.started)
    /\ [][ /\ TransportEvent => listening /\ boot.started
           /\ isInitializing' /\ ~isInitializing => Statement = "flag" ]_vars

\* The constructor has returned, the ready event has cleared isInitializing.
C25_Witness ==
    /\ Booted /\ boot.started /\ listening
    /\ client = HANDLE
    /\ isReady /\ ~isInitializing
====
